---- MODULE Spec2Model ----
(***************************************************************************)
(* A model of WebCrawlerBackup (src/lol.py): the recursive crawl from the  *)
(* seed URL, the bounded-retry GET, and the semaphore-bounded download     *)
(* phase.                                                                  *)
(*                                                                         *)
(* A URL is the record urlparse gives: scheme, netloc, path, query and     *)
(* fragment.                                                               *)
(* A path is a sequence of tokens in which "/" is a token of its own, so   *)
(* "/docs/page.html" is <<"/", "docs", "/", "page.html">> and "" is <<>>.  *)
(***************************************************************************)
EXTENDS Integers, Sequences, FiniteSets, TLC

\* ------------------------------------------------------------------ bounds

\* max_retries is drawn from 1..MaxRetriesBound
MaxRetriesBound == 2
\* max_connections is drawn from 1..MaxConnectionsBound
MaxConnectionsBound == 2
\* the number of coroutines that call _crawl_page concurrently in SpecConc
NCallers == 2

\* ------------------------------------------------------------------ URLs

Url(s, n, p, f) ==
    [scheme |-> s, netloc |-> n, path |-> p, query |-> "", fragment |-> f]

\* A URL with a query string
UrlQ(s, n, p, q, f) == [Url(s, n, p, f) EXCEPT !.query = q]

\* urlsplit raises ValueError ("Invalid IPv6 URL") for a netloc with an
\* unbalanced bracket, and urljoin with it.
UrlJoinRaises(href) == href.netloc = "["

RECURSIVE Segments(_)
\* str.split('/') without the empty strings: the segments of a path
Segments(p) ==
    IF p = <<>> THEN <<>>
    ELSE IF Head(p) = "/" THEN Segments(Tail(p))
    ELSE <<Head(p)>> \o Segments(Tail(p))

RECURSIVE Resolved(_, _)
\* The loop of urljoin over the segments: '..' pops what is there, '.' is
\* skipped.
Resolved(segs, acc) ==
    IF segs = <<>> THEN acc
    ELSE IF Head(segs) = ".."
         THEN Resolved(Tail(segs),
                       IF acc = <<>> THEN acc ELSE SubSeq(acc, 1, Len(acc) - 1))
    ELSE IF Head(segs) = "." THEN Resolved(Tail(segs), acc)
    ELSE Resolved(Tail(segs), Append(acc, Head(segs)))

RECURSIVE Slashed(_)
\* '/' + '/'.join(segments)
Slashed(segs) ==
    IF segs = <<>> THEN <<>> ELSE <<"/", Head(segs)>> \o Slashed(Tail(segs))

\* The path urljoin gives a path-absolute reference: its dot segments
\* removed, a trailing separator kept (and given after a last '.' or '..').
RemoveDots(p) ==
    LET r == Slashed(Resolved(Segments(p), <<>>))
        last == p[Len(p)]
        dir == last = "/" \/ last = "." \/ last = ".."
    IN  IF r = <<>> THEN <<"/">> ELSE IF dir THEN Append(r, "/") ELSE r

\* urljoin(base, href) for the references the sites below contain: an
\* absolute URL (href.scheme # ""), a scheme-relative one (//host/path), a
\* path-absolute one (/path), and a fragment-only one (#frag).  The
\* fragment of the result is always the reference's.  A reference with a
\* netloc is returned with its path as written; only a relative one has
\* its dot segments removed.
UrlJoin(base, href) ==
    IF href.scheme # "" THEN href
    ELSE IF href.netloc # "" THEN [href EXCEPT !.scheme = base.scheme]
    ELSE IF href.path # <<>> THEN
        [scheme |-> base.scheme, netloc |-> base.netloc,
         path |-> RemoveDots(href.path), query |-> href.query,
         fragment |-> href.fragment]
    ELSE IF href.query # "" THEN
        [base EXCEPT !.query = href.query, !.fragment = href.fragment]
    ELSE [base EXCEPT !.fragment = href.fragment]

\* ------------------------------------------------------------------ paths

RECURSIVE LStrip(_)
LStrip(p) == IF p # <<>> /\ Head(p) = "/" THEN LStrip(Tail(p)) ELSE p

RECURSIVE RStrip(_)
RStrip(p) ==
    IF p # <<>> /\ p[Len(p)] = "/" THEN RStrip(SubSeq(p, 1, Len(p) - 1)) ELSE p

\* str.strip('/')
Strip(p) == RStrip(LStrip(p))

\* The file names the sites use, by the suffix str.endswith tests.
HtmlNames == {"index.html", "page.html", "secret.html"}
AssetNames == {"s.css", "app.js"}
ImageNames == {"logo.png"}
FontNames == {"f.woff"}

EndsWith(p, names) == p # <<>> /\ p[Len(p)] \in names

\* os.path.join(a, b, c) for relative b and c: a separator after each
\* part but the last (so a last part of '' leaves a trailing separator).
Join3(a, b, c) == <<a, "/", b, "/">> \o c
Join2(a, c) == <<a, "/">> \o c

\* os.path.dirname: everything before the last separator.
RECURSIVE DirName(_)
DirName(p) ==
    IF p = <<>> THEN <<>>
    ELSE IF p[Len(p)] = "/" THEN SubSeq(p, 1, Len(p) - 1)
    ELSE DirName(SubSeq(p, 1, Len(p) - 1))

\* _get_save_path
GetSavePath(backup, path) ==
    LET p == Strip(path) IN
    IF EndsWith(p, HtmlNames) THEN Join2(backup, p)
    ELSE IF EndsWith(p, AssetNames) THEN Join3(backup, "assets", p)
    ELSE IF EndsWith(p, ImageNames) THEN Join3(backup, "images", p)
    ELSE IF EndsWith(p, FontNames) THEN Join3(backup, "fonts", p)
    ELSE Join3(backup, "other", p)

\* The (url, save_path) pair _add_file_for_download adds.
FileEntry(backup, url) ==
    LET path == IF url.path # <<>> THEN url.path ELSE <<"index.html">>
    IN  <<url, GetSavePath(backup, path)>>

\* ------------------------------------------------------------------ sites

\* self.base_url and self.backup_dir
base_url == Url("https", "a.test", <<"/">>, "")
backup_dir == "backup"

Rel(p, f) == Url("", "", p, f)
Page(h, s) == [hrefs |-> h, srcs |-> s]
EmptyPage == Page(<<>>, <<>>)

UA == Url("https", "a.test", <<"/", "a">>, "")
UB == Url("https", "a.test", <<"/", "b">>, "")

\* Three pages with cross-links and the cycle a -> b -> a, and a stylesheet.
SiteCycle ==
    [pages |-> (base_url :> Page(<<Rel(<<"/", "a">>, ""), Rel(<<"/", "b">>, "")>>,
                                 <<Rel(<<"/", "s.css">>, "")>>))
            @@ (UA :> Page(<<Rel(<<"/", "b">>, ""), Rel(<<"/">>, "")>>, <<>>))
            @@ (UB :> Page(<<Rel(<<"/", "a">>, "")>>, <<>>)),
     disallow |-> {}]

\* One page linked with and without a fragment, and an image.
SiteFragment ==
    [pages |-> (base_url :> Page(<<Rel(<<"/", "a">>, ""), Rel(<<"/", "a">>, "top")>>,
                                 <<Rel(<<"/", "logo.png">>, "")>>))
            @@ (UA :> Page(<<Rel(<<"/">>, "")>>, <<>>)),
     disallow |-> {}]

\* Links to another host, to the seed's host under another scheme, and to
\* a page under a prefix that robots.txt disallows.
SiteScope ==
    [pages |-> (base_url :> Page(<<Url("https", "b.test", <<"/", "x">>, ""),
                                   Url("http", "a.test", <<"/", "x">>, ""),
                                   Rel(<<"/", "private", "/", "secret.html">>, "")>>,
                                 <<>>)),
     disallow |-> {<<"/", "private">>}]

UDocs == Url("https", "a.test", <<"/", "docs">>, "")
UDocsSlash == Url("https", "a.test", <<"/", "docs", "/">>, "")

\* The root links to /docs and to /docs/, which links to /docs/page.html.
SiteDocs ==
    [pages |-> (base_url :> Page(<<Rel(<<"/", "docs">>, ""),
                                   Rel(<<"/", "docs", "/">>, "")>>, <<>>))
            @@ (UDocs :> Page(<<Rel(<<"/", "docs", "/", "page.html">>, "")>>, <<>>))
            @@ (UDocsSlash :> Page(<<Rel(<<"/", "docs", "/", "page.html">>, "")>>, <<>>)),
     disallow |-> {}]

UTraversal == Url("https", "a.test", <<"/", "..", "/", "..", "/", "x">>, "")

\* Links with '..' segments: in an absolute URL, in a relative reference,
\* and percent-encoded.
SiteTraversal ==
    [pages |-> (base_url :> Page(<<UTraversal,
                                   Rel(<<"/", "..", "/", "y">>, ""),
                                   Rel(<<"/", "%2e%2e", "/", "z">>, "")>>, <<>>)),
     disallow |-> {}]

\* A malformed href between two good ones, and a stylesheet.
SiteMalformed ==
    [pages |-> (base_url :> Page(<<Rel(<<"/", "a">>, ""),
                                   Url("http", "[", <<>>, ""),
                                   Rel(<<"/", "b">>, "")>>,
                                 <<Rel(<<"/", "s.css">>, "")>>)),
     disallow |-> {}]

UQuery1 == UrlQ("https", "a.test", <<"/", "p">>, "id=1", "")
UQuery2 == UrlQ("https", "a.test", <<"/", "p">>, "id=2", "")

\* Two links that differ in their query string only.
SiteQuery ==
    [pages |-> (base_url :> Page(<<UrlQ("", "", <<"/", "p">>, "id=1", ""),
                                   UrlQ("", "", <<"/", "p">>, "id=2", "")>>, <<>>)),
     disallow |-> {}]

\* Links to a host that contains the seed's host, to a subdomain of it and
\* to another port of it, and one link to the seed's own host.
SiteHosts ==
    [pages |-> (base_url :> Page(<<Url("https", "evil-a.test", <<"/", "x">>, ""),
                                   Url("https", "sub.a.test", <<"/", "x">>, ""),
                                   Url("https", "a.test:8080", <<"/", "x">>, ""),
                                   Rel(<<"/", "a">>, "")>>, <<>>)),
     disallow |-> {}]

Sites == {SiteCycle, SiteFragment, SiteScope, SiteDocs, SiteTraversal,
          SiteMalformed, SiteQuery, SiteHosts}

\* What the origin serves for a URL: the fragment is not sent, and the
\* client sends the path with its dot segments removed.
ServerKey(u) ==
    [u EXCEPT !.fragment = "",
              !.path = IF u.path = <<>> THEN <<>> ELSE RemoveDots(u.path)]

Body(s, u) ==
    IF ServerKey(u) \in DOMAIN s.pages THEN s.pages[ServerKey(u)] ELSE EmptyPage

\* What one GET can end in: a status, an aiohttp.ClientError, or an
\* exception that is no ClientError (asyncio.TimeoutError, a decoding error).
Statuses == {"200", "404", "503"}
Outcomes == Statuses \cup {"ClientError", "OtherException"}

\* ------------------------------------------------------------------ state

VARIABLES
    site,               \* the origin's pages and robots.txt
    max_retries,        \* self.max_retries
    max_connections,    \* self.max_connections
    robot_parser,       \* self.robot_parser: the Disallow prefixes it read
    visited_urls,       \* self.visited_urls
    files_to_download,  \* self.files_to_download
    semaphore,          \* self.semaphore: its free permits
    pc,                 \* where start_crawl is
    stack,              \* per caller, the pending _crawl_page calls
    tasks,              \* the download tasks of _download_files
    dirs,               \* the directories os.makedirs has made
    disk,               \* the files written under backup_dir
    calls               \* per URL, the calls of _get_with_retry and _download_file

vars == <<site, max_retries, max_connections, robot_parser, visited_urls,
          files_to_download, semaphore, pc, stack, tasks, dirs, disk, calls>>

config == <<site, max_retries, max_connections, robot_parser>>

Callers == 1..NCallers

Count(b, u) == IF u \in DOMAIN b THEN b[u] ELSE 0
Bump(b, u) ==
    [x \in DOMAIN b \cup {u} |-> Count(b, x) + (IF x = u THEN 1 ELSE 0)]

\* The local state of one _crawl_page call.
Frame(u) ==
    [url |-> u, stage |-> "call", attempts |-> 0, outcomes |-> <<>>,
     response |-> "unset", todo |-> <<>>]

Top(c) == stack[c][Len(stack[c])]
SetTop(c, f) == [stack EXCEPT ![c][Len(stack[c])] = f]
Pop(c) == [stack EXCEPT ![c] = SubSeq(stack[c], 1, Len(stack[c]) - 1)]
Push(c, f, g) ==
    [stack EXCEPT ![c] = SubSeq(stack[c], 1, Len(stack[c]) - 1) \o <<f, g>>]
At(c, st) == stack[c] # <<>> /\ Top(c).stage = st

\* __init__ and _initialize_robot_parser
Configured ==
    /\ site \in Sites
    /\ max_retries \in 1..MaxRetriesBound
    /\ max_connections \in 1..MaxConnectionsBound
    /\ robot_parser = site.disallow
    /\ visited_urls = {}
    /\ files_to_download = {}
    /\ semaphore = max_connections
    /\ tasks = <<>>
    /\ dirs = {}
    /\ disk = <<>>
    /\ calls = <<>>

Init ==
    /\ Configured
    /\ pc = "start"
    /\ stack = [c \in Callers |-> <<>>]

\* ------------------------------------------------------------------ crawl

\* A test by substring: every netloc that contains the seed's passes.
IsInternalUrlSubstring(url) ==
    url.netloc \in {"a.test", "evil-a.test", "sub.a.test", "a.test:8080"}

\* _is_internal_url
IsInternalUrl(url) == url.netloc = base_url.netloc

\* A _crawl_page that tests visited_urls and never adds to it.
AddVisitedForgets(visited, url) == visited

\* visited_urls after the add of line 67
AddVisited(visited, url) == visited \cup {url}

\* files_to_download after _add_file_for_download(url)
AddFile(files, url) == files \cup {FileEntry(backup_dir, url)}

\* files_to_download after one loop of _extract_assets over the references
\* refs of the page at base: each internal one is added, until urljoin
\* raises for one, which ends _extract_assets.
AddFiles(files, base, refs) ==
    LET raising == {j \in 1..Len(refs) : UrlJoinRaises(refs[j])}
        n == IF raising = {} THEN Len(refs)
             ELSE (CHOOSE j \in raising : \A k \in raising : j <= k) - 1
        joined == {UrlJoin(base, refs[i]) : i \in 1..n}
    IN  files \cup {FileEntry(backup_dir, full) :
                       full \in {v \in joined : IsInternalUrl(v)}}

\* The directory and its parents, which os.makedirs makes.
Ancestors(d) ==
    {SubSeq(d, 1, k) : k \in {j \in 1..Len(d) :
                                 d[j] # "/" /\ (j = Len(d) \/ d[j + 1] = "/")}}

\* The directories after the os.makedirs(os.path.dirname(save_path)) of
\* every entry of files.
MakeDirs(ds, files) == ds \cup UNION {Ancestors(DirName(e[2])) : e \in files}

\* start_crawl up to its first await: the seed's _crawl_page is called.
StartCrawl ==
    /\ pc = "start"
    /\ pc' = "crawl"
    /\ stack' = [stack EXCEPT ![1] = <<Frame(base_url)>>]
    /\ dirs' = dirs \cup {<<backup_dir>>}
    /\ UNCHANGED <<config, visited_urls, files_to_download, semaphore, tasks,
                   disk, calls>>

\* _crawl_page, lines 64-70: the visited test and add, with no await
\* between them, and the call of _get_with_retry.
CrawlPageEnter(c) ==
    /\ At(c, "call")
    /\ IF Top(c).url \in visited_urls
       THEN /\ stack' = Pop(c)
            /\ UNCHANGED <<visited_urls, calls>>
       ELSE /\ visited_urls' = AddVisited(visited_urls, Top(c).url)
            /\ calls' = Bump(calls, Top(c).url)
            /\ stack' = SetTop(c, [Top(c) EXCEPT !.stage = "loop"])
    /\ UNCHANGED <<config, files_to_download, semaphore, pc, tasks, dirs, disk>>

\* A loop test that is off by one: max_retries + 1 attempts.
MayAttemptOnceMore(attempts, retries) == attempts <= retries

\* The loop test of _get_with_retry
MayAttempt(attempts, retries) == attempts < retries

\* _get_with_retry, line 141: another GET is sent, or None is returned.
GetLoop(c) ==
    /\ At(c, "loop")
    /\ \/ /\ MayAttempt(Top(c).attempts, max_retries)
          /\ stack' = SetTop(c, [Top(c) EXCEPT !.stage = "request"])
       \/ /\ ~MayAttempt(Top(c).attempts, max_retries)
          /\ stack' = SetTop(c, [Top(c) EXCEPT !.stage = "got", !.response = "None"])
    /\ UNCHANGED <<config, visited_urls, files_to_download, semaphore, pc, tasks,
                   dirs, disk, calls>>

\* A _get_with_retry whose failed attempt goes back to the loop test with
\* no sleep.
AfterGetNoDelay(f, o) ==
    LET g == [f EXCEPT !.outcomes = Append(f.outcomes, o)] IN
    IF o = "200" THEN [g EXCEPT !.stage = "got", !.response = "body"]
    ELSE IF o \in Statuses \cup {"ClientError"}
         THEN [g EXCEPT !.stage = "loop", !.attempts = f.attempts + 1]
    ELSE [g EXCEPT !.stage = "raised"]

\* The frame after the GET of _get_with_retry ended in outcome o (lines
\* 145-152); an exception that is no ClientError leaves the frame's stage
\* "raised".
AfterGet(f, o) ==
    LET g == [f EXCEPT !.outcomes = Append(f.outcomes, o)] IN
    IF o = "200" THEN [g EXCEPT !.stage = "got", !.response = "body"]
    ELSE IF o \in Statuses \cup {"ClientError"}
         THEN [g EXCEPT !.stage = "sleep", !.attempts = f.attempts + 1]
    ELSE [g EXCEPT !.stage = "raised"]

\* The GET of _get_with_retry ends.  What _get_with_retry does not catch,
\* _crawl_page does (line 89), and returns.
GetResponse(c) ==
    /\ At(c, "request")
    /\ \E o \in Outcomes :
         LET g == AfterGet(Top(c), o) IN
         stack' = IF g.stage = "raised" THEN Pop(c) ELSE SetTop(c, g)
    /\ UNCHANGED <<config, visited_urls, files_to_download, semaphore, pc, tasks,
                   dirs, disk, calls>>

\* asyncio.sleep(self.delay), line 153
GetSleep(c) ==
    /\ At(c, "sleep")
    /\ stack' = SetTop(c, [Top(c) EXCEPT !.stage = "loop"])
    /\ UNCHANGED <<config, visited_urls, files_to_download, semaphore, pc, tasks,
                   dirs, disk, calls>>

\* _crawl_page, lines 71-79: None ends the call; a body is parsed, the page
\* is added to the download list and its links are found.
CrawlPageGot(c) ==
    /\ At(c, "got")
    /\ IF Top(c).response = "None"
       THEN /\ stack' = Pop(c)
            /\ UNCHANGED <<files_to_download, dirs>>
       ELSE /\ files_to_download' = AddFile(files_to_download, Top(c).url)
            /\ dirs' = MakeDirs(dirs, files_to_download')
            /\ stack' = SetTop(c, [Top(c) EXCEPT
                                     !.stage = "links", !.outcomes = <<>>,
                                     !.attempts = 0,
                                     !.todo = Body(site, Top(c).url).hrefs])
    /\ UNCHANGED <<config, visited_urls, semaphore, pc, tasks, disk, calls>>

\* _crawl_page, lines 80-84: the next link; an internal one is crawled.
\* A ValueError of urljoin is caught at line 89, which ends the call.
CrawlPageLink(c) ==
    /\ At(c, "links")
    /\ Top(c).todo # <<>>
    /\ LET f == [Top(c) EXCEPT !.todo = Tail(Top(c).todo)]
           full == UrlJoin(Top(c).url, Head(Top(c).todo))
       IN  stack' = IF UrlJoinRaises(Head(Top(c).todo)) THEN Pop(c)
                    ELSE IF IsInternalUrl(full) THEN Push(c, f, Frame(full))
                    ELSE SetTop(c, f)
    /\ UNCHANGED <<config, visited_urls, files_to_download, semaphore, pc, tasks,
                   dirs, disk, calls>>

\* _crawl_page, line 87: _extract_assets (it never awaits), and the return.
CrawlPageAssets(c) ==
    /\ At(c, "links")
    /\ Top(c).todo = <<>>
    /\ LET page == Body(site, Top(c).url) IN
       files_to_download' =
           AddFiles(files_to_download, Top(c).url, page.srcs \o page.hrefs)
    /\ dirs' = MakeDirs(dirs, files_to_download')
    /\ stack' = Pop(c)
    /\ UNCHANGED <<config, visited_urls, semaphore, pc, tasks, disk, calls>>

CrawlStep(c) ==
    \/ CrawlPageEnter(c)
    \/ GetLoop(c)
    \/ GetResponse(c)
    \/ GetSleep(c)
    \/ CrawlPageGot(c)
    \/ CrawlPageLink(c)
    \/ CrawlPageAssets(c)

\* ------------------------------------------------------------------ download

AllDone == \A e \in DOMAIN tasks : tasks[e].state = "done"

\* A start_crawl that does not await the crawl: _download_files starts
\* while _crawl_page calls are pending.
DownloadFilesEarly ==
    /\ pc = "crawl"
    /\ IF files_to_download = {}
       THEN /\ stack[1] = <<>>
            /\ pc' = "returned"
            /\ UNCHANGED tasks
       ELSE /\ pc' = "download"
            /\ tasks' = [e \in files_to_download |->
                            [state |-> "waiting", attempts |-> 0, outcome |-> "unset",
                             result |-> "unset"]]
    /\ UNCHANGED <<config, visited_urls, files_to_download, semaphore, stack,
                   dirs, disk, calls>>

\* The recursive crawl has returned (line 53) and _download_files starts:
\* with nothing to download it returns, else one task per entry is made.
DownloadFiles ==
    /\ pc = "crawl"
    /\ stack[1] = <<>>
    /\ IF files_to_download = {}
       THEN /\ pc' = "returned"
            /\ UNCHANGED tasks
       ELSE /\ pc' = "download"
            /\ tasks' = [e \in files_to_download |->
                            [state |-> "waiting", attempts |-> 0, outcome |-> "unset",
                             result |-> "unset"]]
    /\ UNCHANGED <<config, visited_urls, files_to_download, semaphore, stack,
                   dirs, disk, calls>>

\* A semaphore that admits every caller.
CanAcquireAlways(permits) == TRUE

\* Semaphore.acquire returns at once only with a free permit.
CanAcquire(permits) == permits > 0

\* _download_file, lines 163-166: a permit is taken and the GET is sent.
DownloadAcquire(e) ==
    /\ pc = "download"
    /\ tasks[e].state = "waiting"
    /\ CanAcquire(semaphore)
    /\ semaphore' = semaphore - 1
    /\ tasks' = [tasks EXCEPT ![e].state = "request", ![e].attempts = 1]
    /\ calls' = Bump(calls, e[1])
    /\ UNCHANGED <<config, visited_urls, files_to_download, pc, stack, dirs, disk>>

\* An exit path that keeps its permit.
ReleaseLeaks(permits) == permits

\* Semaphore.release, on leaving "async with self.semaphore"
Release(permits) == permits + 1

\* open(save_path, 'wb') raises for a path that names a directory.
OpenRaises(path, ds) == path[Len(path)] = "/" \/ path \in ds

\* The task after _download_file has left its "async with" (line 178).
Finished(t, r) == [t EXCEPT !.state = "done", !.result = r]

\* _download_file, lines 166-168 and 175-178: the GET ends.  On a 200 the
\* file is opened for writing, which truncates it; every other status and
\* every exception is logged and the permit is released.
DownloadResponse(e) ==
    /\ pc = "download"
    /\ tasks[e].state = "request"
    /\ \E o \in Outcomes :
         IF o = "200" /\ ~OpenRaises(e[2], dirs)
         THEN /\ tasks' = [tasks EXCEPT ![e].state = "writing", ![e].outcome = o]
              /\ disk' = [p \in DOMAIN disk \cup {e[2]} |->
                             IF p = e[2] THEN [from |-> e[1], complete |-> FALSE]
                             ELSE disk[p]]
              /\ UNCHANGED semaphore
         ELSE /\ tasks' = [tasks EXCEPT
                                ![e] = Finished([tasks[e] EXCEPT !.outcome = o], "failed")]
              /\ semaphore' = Release(semaphore)
              /\ UNCHANGED disk
    /\ UNCHANGED <<config, visited_urls, files_to_download, pc, stack, dirs, calls>>

\* A _download_file that takes and gives back its permit by hand, with no
\* "async with": the exception of a chunk read or write keeps the permit.
DownloadWriteLeaks(e) ==
    /\ pc = "download"
    /\ tasks[e].state = "writing"
    /\ \/ /\ disk' = [disk EXCEPT ![e[2]] = [from |-> e[1], complete |-> TRUE]]
          /\ tasks' = [tasks EXCEPT ![e] = Finished(tasks[e], "ok")]
          /\ semaphore' = Release(semaphore)
       \/ /\ tasks' = [tasks EXCEPT ![e] = Finished(tasks[e], "failed")]
          /\ UNCHANGED <<disk, semaphore>>
    /\ UNCHANGED <<config, visited_urls, files_to_download, pc, stack, dirs, calls>>

\* _download_file, lines 169-174: the chunks are read and written to the
\* end, or an exception ends the loop with the file as far as it got; the
\* permit is released either way.
DownloadWrite(e) ==
    /\ pc = "download"
    /\ tasks[e].state = "writing"
    /\ \/ /\ disk' = [disk EXCEPT ![e[2]] = [from |-> e[1], complete |-> TRUE]]
          /\ tasks' = [tasks EXCEPT ![e] = Finished(tasks[e], "ok")]
       \/ /\ tasks' = [tasks EXCEPT ![e] = Finished(tasks[e], "failed")]
          /\ UNCHANGED disk
    /\ semaphore' = Release(semaphore)
    /\ UNCHANGED <<config, visited_urls, files_to_download, pc, stack, dirs, calls>>

\* A loop over as_completed that stops at the first task to complete.
DownloadsAwaitedFirst == \E e \in DOMAIN tasks : tasks[e].state = "done"

\* _download_files, lines 192-194: every task has been awaited.
DownloadsAwaited == AllDone

\* _download_files and with it start_crawl return.
Return ==
    /\ pc = "download"
    /\ DownloadsAwaited
    /\ pc' = "returned"
    /\ UNCHANGED <<config, visited_urls, files_to_download, semaphore, stack,
                   tasks, dirs, disk, calls>>

\* ------------------------------------------------------------------ specifications

\* The program: start_crawl, which alone calls _crawl_page.
Next ==
    \/ StartCrawl
    \/ CrawlStep(1)
    \/ DownloadFiles
    \/ \E e \in DOMAIN tasks : DownloadAcquire(e)
    \/ \E e \in DOMAIN tasks : DownloadResponse(e)
    \/ \E e \in DOMAIN tasks : DownloadWrite(e)
    \/ Return

Spec == Init /\ [][Next]_vars

\* The program under the scheduling asyncio gives it: a coroutine that can
\* run does, and every request ends.
FairSpec == Spec /\ WF_vars(Next)

\* _crawl_page called by NCallers coroutines at once (asyncio.gather over
\* _crawl_page calls on a new crawler), each on one of these URLs of the
\* site with the cycle, every GET being tried once.
ConcUrls == {base_url, UA}

InitConc ==
    /\ Configured
    /\ site = SiteCycle
    /\ max_retries = 1
    /\ max_connections = 1
    /\ pc = "crawl"
    /\ stack \in [Callers -> {<<Frame(u)>> : u \in ConcUrls}]

NextConc == \E c \in Callers : CrawlStep(c)

SpecConc == InitConc /\ [][NextConc]_vars

\* ------------------------------------------------------------------ claims

\* Every pending _crawl_page call.
Frames == UNION {{stack[c][i] : i \in 1..Len(stack[c])} : c \in Callers}

RECURSIVE SumOver(_, _)
SumOver(b, S) ==
    IF S = {} THEN 0
    ELSE LET u == CHOOSE x \in S : TRUE IN Count(b, u) + SumOver(b, S \ {u})

\* The URL as a dedup key: the fragment stripped.
Normalize(u) == [u EXCEPT !.fragment = ""]

\* How often the Fetcher was invoked for the resource of u: the calls of
\* _get_with_retry and of _download_file on the URLs that normalize as u does.
FetchesOf(u) ==
    SumOver(calls, {v \in DOMAIN calls : Normalize(v) = Normalize(u)})

\* C1: for all discovered URLs that normalize to the same URL, the Fetcher
\* (_get_with_retry in the crawl, _download_file in the download phase) is
\* invoked for that resource at most once over the run.
C1_FetchedAtMostOnce == \A u \in DOMAIN calls : FetchesOf(u) <= 1

\* C2: start_crawl eventually returns, whatever the link graph (cycles
\* included) and whatever each request ends in.
C2_StartCrawlReturns == <>(pc = "returned")

\* C2 witness: the crawl of the site with the cycle a -> b -> a has
\* returned, with both pages of the cycle visited and files downloaded.
C2_ReturnedFromCycle ==
    /\ pc = "returned"
    /\ site = SiteCycle
    /\ {UA, UB} \subseteq visited_urls
    /\ \E e \in DOMAIN tasks : tasks[e].result = "ok"

\* The pending calls on u that are past the visited test.
Accepted(u) ==
    UNION {{<<c, i>> : i \in {j \in 1..Len(stack[c]) :
                                /\ stack[c][j].url = u
                                /\ stack[c][j].stage # "call"}} : c \in Callers}

\* C3: of the concurrent _crawl_page calls on one URL exactly one passes
\* the visited test and goes on to fetch; a URL is in visited_urls from
\* the step in which it is accepted; visited_urls only grows.
C3_CheckAndInsertAtomic ==
    /\ [](\A u \in visited_urls \cup DOMAIN calls :
            /\ u \in visited_urls
            /\ Count(calls, u) = 1
            /\ Cardinality(Accepted(u)) <= 1)
    /\ [][visited_urls \subseteq visited_urls']_vars

\* C3 witness: two coroutines called _crawl_page on the seed URL; one was
\* accepted and has its GET open, the other has returned at the test.
C3_OneAcceptedOneReturned ==
    /\ visited_urls = {base_url}
    /\ \E c \in Callers, d \in Callers :
         /\ c # d
         /\ Len(stack[c]) = 1
         /\ stack[c][1].url = base_url
         /\ stack[c][1].stage = "request"
         /\ stack[d] = <<>>

\* The GETs that are open: those of _get_with_retry and of _download_file.
OpenRequests ==
    Cardinality({c \in Callers : At(c, "request")})
    + Cardinality({e \in DOMAIN tasks : tasks[e].state \in {"request", "writing"}})

\* C4: when start_crawl has returned no _crawl_page call is pending, no
\* request is open, and every entry of files_to_download has had its
\* _download_file task run to its end.
C4_ReturnsWhenDrained ==
    pc = "returned" =>
        /\ \A c \in Callers : stack[c] = <<>>
        /\ OpenRequests = 0
        /\ \A e \in files_to_download :
             e \in DOMAIN tasks /\ tasks[e].state = "done"

\* C4 witness: start_crawl has returned after a crawl of several pages
\* with several files, of which some were written and some failed.
C4_ReturnedAfterWork ==
    /\ pc = "returned"
    /\ Cardinality(visited_urls) >= 3
    /\ Cardinality(files_to_download) >= 3
    /\ \E e \in DOMAIN tasks : tasks[e].result = "ok"
    /\ \E e \in DOMAIN tasks : tasks[e].result = "failed"

\* C5: at every instant at most max_connections requests are open, those
\* of the crawl and those of the download phase counted together.
C5_OpenRequestsBounded == OpenRequests <= max_connections

\* C5 witness: with more files than permits, max_connections downloads
\* are open at once and another task waits for a permit.
C5_CeilingReached ==
    /\ max_connections = 2
    /\ OpenRequests = max_connections
    /\ \E e \in DOMAIN tasks : tasks[e].state = "waiting"

\* The outcomes the retry contract calls retryable: a 5xx response and a
\* transport error.
Retryable == {"503", "ClientError"}

\* A call of _get_with_retry that has seen only successes and retryable
\* outcomes so far.
OnlyRetryable(f) ==
    \A i \in 1..Len(f.outcomes) : f.outcomes[i] \in Retryable \cup {"200"}

\* C6: over any sequence of retryable outcomes _get_with_retry makes at
\* most max_retries GETs; the first 200 ends it at once with the body, and
\* it returns None only after exactly max_retries failed GETs.
C6_BoundedRetry ==
    \A f \in Frames :
        OnlyRetryable(f) =>
            /\ Len(f.outcomes) <= max_retries
            /\ \A i \in 1..Len(f.outcomes) :
                 f.outcomes[i] = "200" =>
                     /\ i = Len(f.outcomes)
                     /\ f.stage = "got"
                     /\ f.response = "body"
            /\ (f.stage = "got" /\ f.response = "body") =>
                   /\ Len(f.outcomes) >= 1
                   /\ f.outcomes[Len(f.outcomes)] = "200"
            /\ (f.stage = "got" /\ f.response = "None") =>
                   /\ Len(f.outcomes) = max_retries
                   /\ \A i \in 1..Len(f.outcomes) : f.outcomes[i] \in Retryable

\* C6 witness: a 503 and then a 200 on the last of two attempts has
\* returned the body.
C6_SuccessOnFinalAttempt ==
    /\ max_retries = 2
    /\ \E f \in Frames :
         /\ f.stage = "got"
         /\ f.response = "body"
         /\ f.outcomes = <<"503", "200">>

\* C7: after a GET of _get_with_retry has returned a 4xx status no
\* further GET is made for that URL.
C7_NoRetryAfter4xx ==
    \A f \in Frames :
        \A i \in 1..Len(f.outcomes) :
            f.outcomes[i] = "404" =>
                /\ i = Len(f.outcomes)
                /\ f.stage # "request"

\* C8: a download whose request ended in a 5xx response or in a transport
\* or timeout error is declared failed only after max_retries attempts.
C8_DownloadRetried ==
    \A e \in DOMAIN tasks :
        (/\ tasks[e].state = "done"
         /\ tasks[e].result = "failed"
         /\ tasks[e].outcome \in Retryable \cup {"OtherException"})
            => tasks[e].attempts = max_retries

\* scheme + host + port
Origin(u) == <<u.scheme, u.netloc>>

\* C9: a link whose origin differs from the seed's is never added to
\* visited_urls or to files_to_download, and no request is sent to it.
C9_OffOriginNeverEnqueued ==
    \A u \in visited_urls \cup {e[1] : e \in files_to_download} \cup DOMAIN calls :
        Origin(u) = Origin(base_url)

IsPrefix(p, q) == Len(p) <= Len(q) /\ SubSeq(q, 1, Len(p)) = p

\* The path is under a prefix robots.txt disallows.
Disallowed(u) == \E p \in robot_parser : IsPrefix(p, u.path)

\* C10: no fetch, of the crawl or of the download phase, is made for a URL
\* of the seed's origin under a prefix that its robots.txt disallows.
C10_RobotsRespected ==
    \A u \in DOMAIN calls : Origin(u) = Origin(base_url) => ~Disallowed(u)

\* What start_crawl hands back of the fetches that failed: it returns
\* None and the object keeps no record; a failure is logged and nothing more.
failed_fetches == {}

UCss == Url("https", "a.test", <<"/", "s.css">>, "")

\* The written file of a URL is there in full.
Written(u) ==
    LET path == FileEntry(backup_dir, u)[2]
    IN  path \in DOMAIN disk /\ disk[path].complete

\* C11: when a fetched page references an asset that returns 404, the run
\* completes with the page written to its mirror path and the asset's URL
\* recorded as a failed fetch.  Stated of the seed page of the site with
\* the cycle, whose stylesheet is queued only once the seed was fetched.
C11_PageWrittenAssetRecorded ==
    (/\ pc = "returned"
     /\ site = SiteCycle
     /\ FileEntry(backup_dir, UCss) \in DOMAIN tasks
     /\ tasks[FileEntry(backup_dir, UCss)].outcome = "404")
        => /\ Written(base_url)
           /\ UCss \in failed_fetches

\* The download tasks that have opened their file for writing.
Opened == {e \in DOMAIN tasks : tasks[e].state \in {"writing", "done"}
                                 /\ tasks[e].outcome = "200"}

\* C12: /docs and /docs/ are one crawl unit: they have the same save path,
\* the resource is fetched once, and no download writes over the file of
\* the other URL.
C12_DocsOneCrawlUnit ==
    /\ FileEntry(backup_dir, UDocs)[2] = FileEntry(backup_dir, UDocsSlash)[2]
    /\ Count(calls, UDocs) + Count(calls, UDocsSlash) <= 1
    /\ \A e1 \in Opened, e2 \in Opened : e1[2] = e2[2] => e1 = e2

\* download_file of web.py: the path it writes a URL to.
WebFilePath(backup_folder, url) == Join3(backup_folder, url.netloc, LStrip(url.path))

RECURSIVE NormPath(_, _)
\* The segments the file system resolves a relative path to: '..' leaves
\* the directory before it, or climbs above the start.
NormPath(segs, acc) ==
    IF segs = <<>> THEN acc
    ELSE IF Head(segs) = "." THEN NormPath(Tail(segs), acc)
    ELSE IF Head(segs) = ".." /\ acc # <<>> /\ acc[Len(acc)] # ".."
         THEN NormPath(Tail(segs), SubSeq(acc, 1, Len(acc) - 1))
    ELSE NormPath(Tail(segs), Append(acc, Head(segs)))

\* The path lies in the directory root or below it.
Inside(root, path) ==
    LET n == NormPath(Segments(path), <<>>) IN n # <<>> /\ n[1] = root

\* C13: the local path computed for a URL, by _get_save_path and by
\* download_file of web.py, lies inside the mirror root, '..' segments in
\* the URL's path or not, and no file is written outside it.
C13_PathsInsideRoot ==
    /\ \A e \in files_to_download :
         /\ Inside(backup_dir, e[2])
         /\ Inside(backup_dir, WebFilePath(backup_dir, e[1]))
    /\ \A path \in DOMAIN disk : Inside(backup_dir, path)

\* C14: a write is all-or-nothing: after the run every file at a mirror
\* path is the complete content of a successful fetch, and a download
\* that failed part-way has left no truncated file.
C14_WritesAllOrNothing ==
    pc = "returned" => \A path \in DOMAIN disk : disk[path].complete

\* C15: start_crawl ends in normal completion only if the seed URL was
\* fetched; a seed whose every attempt failed ends the run in failure.
C15_FailsIffSeedFails ==
    pc = "returned" => FileEntry(backup_dir, base_url) \in files_to_download

\* The references of a page that urljoin resolves to a URL of the crawl.
InScope(u, refs) ==
    LET joined == {UrlJoin(u, refs[i]) :
                      i \in {j \in 1..Len(refs) : ~UrlJoinRaises(refs[j])}}
    IN  {v \in joined : IsInternalUrl(v)}

\* The seed's _crawl_page has fetched the seed and has returned.
SeedPageFinished ==
    /\ pc # "start"
    /\ stack[1] = <<>>
    /\ FileEntry(backup_dir, base_url) \in files_to_download

\* C16: when _crawl_page has finished a page it fetched, every in-scope
\* link of the page is in visited_urls and every in-scope link and asset
\* is in files_to_download: an error on one reference drops no other.
C16_NoReferenceDropped ==
    SeedPageFinished =>
        LET page == Body(site, base_url) IN
        /\ InScope(base_url, page.hrefs) \subseteq visited_urls
        /\ \A v \in InScope(base_url, page.hrefs \o page.srcs) :
               FileEntry(backup_dir, v) \in files_to_download

\* The path up to a trailing slash and a trailing index.html.
Canon(path) ==
    LET p == RStrip(path) IN
    IF EndsWith(p, {"index.html"}) THEN RStrip(SubSeq(p, 1, Len(p) - 1)) ELSE p

\* Two URLs of one resource: they differ in the fragment, or in a trailing
\* slash or index.html, at most.
SameResource(u, v) ==
    /\ u.scheme = v.scheme
    /\ u.netloc = v.netloc
    /\ u.query = v.query
    /\ Canon(u.path) = Canon(v.path)

\* C17: two entries of files_to_download have one save path only if their
\* URLs are one resource up to a trailing slash or index.html.
C17_CollisionFree ==
    \A e1 \in files_to_download, e2 \in files_to_download :
        e1[2] = e2[2] => SameResource(e1[1], e2[1])

\* C18: the save path of a URL whose path is empty or ends in '/' has
\* index.html as its last component.
C18_DirectoryIndex ==
    \A e \in files_to_download :
        (e[1].path = <<>> \/ e[1].path[Len(e[1].path)] = "/")
            => e[2][Len(e[2])] = "index.html"

\* The host of a netloc: the port is no part of it.
HostOf(netloc) == IF netloc = "a.test:8080" THEN "a.test" ELSE netloc

\* The URLs _is_internal_url has let into the crawl.
LetIn ==
    visited_urls \cup {e[1] : e \in files_to_download} \cup DOMAIN calls
        \cup {f.url : f \in Frames}

\* C19: _is_internal_url is False for every URL whose host is not the
\* seed's, a host that contains the seed's and a subdomain of it included;
\* no such URL enters the crawl.
C19_ExactHostEquality ==
    /\ \A p \in DOMAIN site.pages :
         \A v \in {UrlJoin(p, site.pages[p].hrefs[i]) :
                      i \in {j \in 1..Len(site.pages[p].hrefs) :
                                ~UrlJoinRaises(site.pages[p].hrefs[j])}} :
             HostOf(v.netloc) # HostOf(base_url.netloc) => ~IsInternalUrl(v)
    /\ \A u \in LetIn : HostOf(u.netloc) = HostOf(base_url.netloc)

\* The links to the other hosts were passed over, and the link after them
\* was crawled.
C19_ForeignHostsSkipped ==
    /\ site = SiteHosts
    /\ pc = "returned"
    /\ UA \in visited_urls
    /\ Written(UA)

\* One step of the _get_with_retry of one _crawl_page call, from frame f
\* to frame g: a GET is sent from the loop test only, the loop test is
\* reached again through the sleep only, and a body is returned straight
\* from the GET.
RetryStep(f, g) ==
    /\ (g.stage = "request" /\ f.stage # "request") => f.stage = "loop"
    /\ (g.stage = "loop" /\ f.stage # "loop") =>
           \/ f.stage = "call" /\ g.outcomes = <<>>
           \/ f.stage = "sleep"
    /\ (f.stage = "request" /\ g.stage # "request") =>
           \/ g.stage = "sleep" /\ g.outcomes[Len(g.outcomes)] # "200"
           \/ g.stage = "got" /\ g.response = "body"
                              /\ g.outcomes[Len(g.outcomes)] = "200"
    /\ (g.stage = "got" /\ f.stage # "got" /\ g.response = "body") =>
           f.stage = "request"

\* C20: between two GET attempts of one _get_with_retry a sleep occurs,
\* and a successful attempt returns with no sleep.
C20_DelayBetweenAttempts ==
    [][\A c \in Callers :
         \A i \in 1..Len(stack[c]) :
            i <= Len(stack'[c]) => RetryStep(stack[c][i], stack'[c][i])]_vars

\* A second attempt is being made, after a failed one and its sleep.
C20_SecondAttempt ==
    \E f \in Frames : f.stage = "request" /\ Len(f.outcomes) = 1

\* ------------------------------------------------------------------ a second run
\* The download step of both programs, run over the mirror an earlier run
\* has left: WebCrawlerBackup._download_files (src/lol.py) and
\* crawl_and_download (src/web.py).

\* What an earlier run wrote: whole content, of that run's fetch.
EarlierRun == Url("earlier run", "", <<>>, "")
OldFile == [from |-> EarlierRun, complete |-> TRUE]

RerunUrls == {UA, UB, UCss}

\* The (url, path) pairs the download step works on: files_to_download of
\* src/lol.py, and the links of src/web.py with their file_path.
LolEntries == {FileEntry(backup_dir, u) : u \in RerunUrls}
WebEntries == {<<u, WebFilePath(backup_dir, u)>> : u \in RerunUrls}

InitRerun ==
    /\ site = SiteCycle
    /\ max_retries = 1
    /\ max_connections \in 1..MaxConnectionsBound
    /\ robot_parser = site.disallow
    /\ visited_urls = {}
    /\ semaphore = max_connections
    /\ stack = [c \in Callers |-> <<>>]
    /\ calls = <<>>
    /\ \E entries \in {LolEntries, WebEntries} :
         /\ pc = IF entries = LolEntries THEN "download" ELSE "web"
         /\ files_to_download = IF entries = LolEntries THEN entries ELSE {}
         /\ tasks = [e \in entries |->
                        [state |-> "waiting", attempts |-> 0, outcome |-> "unset",
                         result |-> "unset"]]
         /\ dirs = MakeDirs({<<backup_dir>>}, entries)
         /\ \E old \in SUBSET {e[2] : e \in entries} :
              disk = [path \in old |-> OldFile]

\* download_file of src/web.py, lines 123-131: a file that exists ends the
\* call; else its directory is made and the GET is sent.
WebDownloadStart(e) ==
    /\ pc = "web"
    /\ tasks[e].state = "waiting"
    /\ IF e[2] \in DOMAIN disk
       THEN /\ tasks' = [tasks EXCEPT ![e] = Finished(tasks[e], "skipped")]
            /\ UNCHANGED <<dirs, calls>>
       ELSE /\ tasks' = [tasks EXCEPT ![e].state = "request", ![e].attempts = 1]
            /\ dirs' = dirs \cup Ancestors(DirName(e[2]))
            /\ calls' = Bump(calls, e[1])
    /\ UNCHANGED <<config, visited_urls, files_to_download, semaphore, pc, stack,
                   disk>>

\* download_file of src/web.py, lines 131-142: the GET ends.  On a 200 the
\* text is read and formatted and the file is written in one piece; every
\* other status and every exception is printed.
WebDownloadResponse(e) ==
    /\ pc = "web"
    /\ tasks[e].state = "request"
    /\ \E o \in Outcomes :
         IF o = "200" /\ ~OpenRaises(e[2], dirs)
         THEN /\ tasks' = [tasks EXCEPT
                                ![e] = Finished([tasks[e] EXCEPT !.outcome = o], "ok")]
              /\ disk' = [p \in DOMAIN disk \cup {e[2]} |->
                             IF p = e[2] THEN [from |-> e[1], complete |-> TRUE]
                             ELSE disk[p]]
         ELSE /\ tasks' = [tasks EXCEPT
                                ![e] = Finished([tasks[e] EXCEPT !.outcome = o], "failed")]
              /\ UNCHANGED disk
    /\ UNCHANGED <<config, visited_urls, files_to_download, semaphore, pc, stack,
                   dirs, calls>>

\* crawl_and_download of src/web.py, lines 157-161: gather has returned.
WebReturn ==
    /\ pc = "web"
    /\ AllDone
    /\ pc' = "returned"
    /\ UNCHANGED <<config, visited_urls, files_to_download, semaphore, stack,
                   tasks, dirs, disk, calls>>

NextRerun ==
    \/ \E e \in DOMAIN tasks : DownloadAcquire(e)
    \/ \E e \in DOMAIN tasks : DownloadResponse(e)
    \/ \E e \in DOMAIN tasks : DownloadWrite(e)
    \/ Return
    \/ \E e \in DOMAIN tasks : WebDownloadStart(e)
    \/ \E e \in DOMAIN tasks : WebDownloadResponse(e)
    \/ WebReturn

SpecRerun == InitRerun /\ [][NextRerun]_vars

\* C21: a file an earlier run left at the mirror path never makes the
\* download step skip the fetch or the write: every finished download has
\* sent its GET, and after a successful one the file holds what this run
\* fetched, in src/lol.py and in src/web.py.
C21_ExistingFileReplaced ==
    \A e \in DOMAIN tasks :
        tasks[e].state = "done" =>
            /\ Count(calls, e[1]) >= 1
            /\ tasks[e].result = "ok" =>
                   /\ e[2] \in DOMAIN disk
                   /\ disk[e[2]].from # EarlierRun

\* The GETs of _get_with_retry that are open.
CrawlRequests ==
    Cardinality({f \in Frames : f.stage = "request"})

\* The _download_file calls that hold a permit.
DownloadRequests ==
    Cardinality({e \in DOMAIN tasks : tasks[e].state \in {"request", "writing"}})

\* C22: start_crawl has two phases.  While a _crawl_page call is pending
\* no download task exists and at most one GET is open; once the download
\* phase has begun no crawl request is open and files_to_download is
\* never changed.
C22_TwoPhase ==
    /\ []((\E c \in Callers : stack[c] # <<>>) =>
              /\ pc = "crawl"
              /\ DOMAIN tasks = {}
              /\ CrawlRequests <= 1)
    /\ [](pc \in {"download", "returned"} => CrawlRequests = 0)
    /\ [](DownloadRequests > 0 => pc = "download")
    /\ [][(pc \in {"download", "returned"})
              => (files_to_download' = files_to_download)]_vars

\* The download phase is under way, after a crawl of several pages.
C22_DownloadingAfterCrawl ==
    /\ pc = "download"
    /\ DownloadRequests >= 1
    /\ Cardinality(visited_urls) >= 2
    /\ Cardinality(files_to_download) >= 2

\* C23: _download_file gives its permit back on every exit path: the
\* free permits are max_connections less the calls inside "async with",
\* they are max_connections again when start_crawl has returned, and,
\* every request ending, the download phase ends with every task done,
\* with more files than permits too.
C23_PermitsReleased ==
    /\ [](semaphore = max_connections - DownloadRequests)
    /\ [](pc = "returned" => semaphore = max_connections)
    /\ (pc = "download") ~> (AllDone /\ semaphore = max_connections)

\* More files than permits were downloaded, and the calls left on each
\* path: a written file, a status that is not 200 or an exception of the
\* request, and an exception while writing.
C23_EveryExitPathTaken ==
    /\ pc = "returned"
    /\ Cardinality(DOMAIN tasks) > max_connections
    /\ semaphore = max_connections
    /\ \E e \in DOMAIN tasks : tasks[e].result = "ok"
    /\ \E e \in DOMAIN tasks :
         tasks[e].result = "failed" /\ tasks[e].outcome = "200"
    /\ \E e \in DOMAIN tasks :
         tasks[e].result = "failed" /\ tasks[e].outcome # "200"

====
